---------------------------- MODULE Spec2Model ----------------------------
(***************************************************************************)
(* A model of drl/LSNN/lleaky.py: the LLeaky layer, a recurrent leaky      *)
(* integrate-and-fire neuron with an adaptive threshold.                   *)
(*                                                                         *)
(* Tensors are modelled as one batch row: a function from the units        *)
(* 1..NumUnits to exact rationals <<n, d>> (d > 0, lowest terms).  The     *)
(* layer's optional state quantiser (state_quant) keeps its default, off.  *)
(* The base class ALIF and the helpers of drl/LSNN/neurons.py are not part *)
(* of the sources at hand; the operators that stand for them are marked    *)
(* as such where they are defined.                                         *)
(***************************************************************************)
EXTENDS Integers, Sequences, FiniteSets, TLC

\* ------------------------------------------------------------ bounds
NumUnits == 2
\* forward calls a caller of an explicit-state layer makes
MaxSteps == 3
\* forward calls a caller of a hidden-state layer makes
MaxHiddenSteps == 2

Units == 1..NumUnits

\* ------------------------------------------------- rational arithmetic
RECURSIVE Gcd(_, _)
Gcd(a, b) == IF b = 0 THEN a ELSE Gcd(b, a % b)

Abs(x) == IF x < 0 THEN -x ELSE x

\* n/d in lowest terms with a positive denominator
Rat(n, d) ==
    LET s == IF d < 0 THEN -1 ELSE 1
        g == Gcd(Abs(n), Abs(d))
    IN  <<(s * n) \div g, (s * d) \div g>>

R0 == <<0, 1>>
R1 == <<1, 1>>
RHalf == <<1, 2>>

RAdd(x, y) == Rat(x[1] * y[2] + y[1] * x[2], x[2] * y[2])
RSub(x, y) == Rat(x[1] * y[2] - y[1] * x[2], x[2] * y[2])
RMul(x, y) == Rat(x[1] * y[1], x[2] * y[2])
RGe(x, y) == x[1] * y[2] >= y[1] * x[2]
RGt(x, y) == x[1] * y[2] > y[1] * x[2]

\* torch.Tensor.clamp(0, 1) on one element
Clamp01(x) == IF RGt(R0, x) THEN R0 ELSE IF RGt(x, R1) THEN R1 ELSE x

\* --------------------------------------------------------- tensors
ZeroT == [i \in Units |-> R0]

TAdd(x, y) == [i \in Units |-> RAdd(x[i], y[i])]
TSub(x, y) == [i \in Units |-> RSub(x[i], y[i])]
TMul(x, y) == [i \in Units |-> RMul(x[i], y[i])]
\* a scalar (a Python float, or a one-element tensor) broadcast over the units
TScale(c, x) == [i \in Units |-> RMul(c, x[i])]
TShift(c, x) == [i \in Units |-> RAdd(c, x[i])]

\* A state slot of the layer or of the caller: a concrete tensor, the
\* uninitialised sentinel (an object carrying init_flag), the Python default
\* False of forward's keyword arguments, or an attribute never assigned.
Tensor(v) == [kind |-> "tensor", val |-> v]
Sentinel == [kind |-> "init_flag", val |-> ZeroT]
PyFalse == [kind |-> "False", val |-> ZeroT]
NoAttr == [kind |-> "noattr", val |-> ZeroT]

\* hasattr(x, "init_flag")
HasInitFlag(x) == x.kind = "init_flag"


\* ------------------------------------------------- Python optionals
\* An optional constructor argument: {} is None, {v} is the value v.
None == {}
Some(v) == {v}
Get(o) == CHOOSE v \in o : TRUE
\* bool(x) of an optional integer: None and 0 are falsy
PyBool(o) == o /= {} /\ o /= {0}
IsNotNone(o) == o /= {}

VARIABLES
    pc,                  \* "new", "ready" (constructed) or "TypeError" (construction failed)
    all_to_all, linear_features, conv2d_channels, kernel_size,
    init_hidden, inhibition, reset_mechanism_val,
    beta, threshold, thresh_beta, rho_b, V,
    recurrent,           \* self.recurrent: the recurrent projection built by __init__
    spk, mem, b,         \* self.spk, self.mem, self.b: the owned state
    reset,               \* self.reset: the reset gate of the step in progress
    held,                \* the (spk, mem, b) the caller of an explicit-state layer holds
    last,                \* the last call: its arguments, the state it met, how it ended
    steps,               \* number of forward calls so far
    steady               \* forward calls since the caller's initial state, all of
                         \* them with input 1 on every unit; Broken once one was not

config == <<all_to_all, linear_features, conv2d_channels, kernel_size,
            init_hidden, inhibition, reset_mechanism_val,
            beta, threshold, thresh_beta, rho_b, V>>
vars == <<pc, config, recurrent, spk, mem, b, reset, held, last, steps, steady>>

\* ----------------------------------------------------- construction

\* _lleaky_init_cases without its elif: one of conv2d_channels / kernel_size
\* alone is let through
_lleaky_init_cases_no_xor ==
    LET all_to_all_bool == all_to_all
        linear_features_bool == PyBool(linear_features)
        conv2d_channels_bool == PyBool(conv2d_channels)
        kernel_size_bool == PyBool(kernel_size)
    IN  IF all_to_all_bool
        THEN IF ~linear_features_bool
             THEN ~(conv2d_channels_bool \/ kernel_size_bool)
             ELSE (linear_features_bool /\ kernel_size_bool)
                    \/ (linear_features_bool /\ conv2d_channels_bool)
        ELSE linear_features_bool \/ conv2d_channels_bool \/ kernel_size_bool

\* LLeaky._lleaky_init_cases: TRUE iff it raises TypeError
_lleaky_init_cases ==
    LET all_to_all_bool == all_to_all
        linear_features_bool == PyBool(linear_features)
        conv2d_channels_bool == PyBool(conv2d_channels)
        kernel_size_bool == PyBool(kernel_size)
    IN  IF all_to_all_bool
        THEN IF ~linear_features_bool
             THEN IF ~(conv2d_channels_bool \/ kernel_size_bool)
                  THEN TRUE
                  ELSE conv2d_channels_bool /= kernel_size_bool
             ELSE (linear_features_bool /\ kernel_size_bool)
                    \/ (linear_features_bool /\ conv2d_channels_bool)
        ELSE linear_features_bool \/ conv2d_channels_bool \/ kernel_size_bool

\* LLeaky._init_padding, for an int kernel_size (one spatial axis kept)
_init_padding == Get(kernel_size) \div 2

\* The weights a fresh nn.Linear / nn.Conv2d may hold (PyTorch draws them at
\* random): a diagonal weight, an off-diagonal weight and a bias for the dense
\* layer; one kernel row (left, centre, right) and a bias for the convolution.
LinearInits == { <<Rat(-1, 1), R1, R0>>, <<RHalf, Rat(-1, 2), RHalf>> }
Conv2dInits == { <<R1, R0, Rat(-1, 1), R0>>, <<Rat(-1, 2), RHalf, R1, RHalf>> }

\* LLeaky._init_recurrent_linear: nn.Linear(linear_features, linear_features)
_init_recurrent_linear(w) ==
    [kind |-> "linear",
     weight |-> [i \in Units |-> [j \in Units |-> IF i = j THEN w[1] ELSE w[2]]],
     bias |-> [i \in Units |-> w[3]]]

\* LLeaky._init_recurrent_conv2d: nn.Conv2d with one channel; the input is
\* laid out as one row of NumUnits pixels, so only the kernel's middle row
\* meets it: out[i] = bias + sum_t row[t] * x[i + t - padding], zero-padded.
_init_recurrent_conv2d(w) ==
    [kind |-> "conv2d",
     weight |-> [i \in Units |-> [j \in Units |->
                    IF j - i + _init_padding \in 0..(Get(kernel_size) - 1)
                    THEN w[j - i + _init_padding + 1]
                    ELSE R0]],
     bias |-> [i \in Units |-> w[Get(kernel_size) + 1]]]

\* LLeaky._init_recurrent_one_to_one: RecurrentOneToOne(self.V)
_init_recurrent_one_to_one ==
    [kind |-> "one_to_one",
     weight |-> [i \in Units |-> [j \in Units |-> R0]],
     bias |-> ZeroT]

NoRecurrent == [kind |-> "noattr",
                weight |-> [i \in Units |-> [j \in Units |-> R0]],
                bias |-> ZeroT]

\* ALIF.init_lleaky: the state triple a fresh layer (or caller) starts from
init_lleaky == <<Sentinel, Sentinel, Sentinel>>

\* ALIF.init_rleaky: the (spk, mem) pair reset_hidden assigns
init_rleaky == <<Sentinel, Sentinel>>

NoCall == [op |-> "none", err |-> FALSE, args |-> FALSE, input_ |-> ZeroT,
           spk |-> NoAttr, mem |-> NoAttr, b |-> NoAttr,
           own |-> <<NoAttr, NoAttr, NoAttr, NoAttr>>,
           thresh |-> ZeroT]

\* LLeaky.__init__, lines 274-288
Construct ==
    /\ pc = "new"
    /\ IF _lleaky_init_cases
       THEN /\ pc' = "TypeError"
            /\ UNCHANGED <<recurrent, spk, mem, b>>
       ELSE /\ pc' = "ready"
            /\ IF all_to_all
               THEN \* _init_recurrent_net
                    IF PyBool(linear_features)
                    THEN \E w \in LinearInits : recurrent' = _init_recurrent_linear(w)
                    ELSE /\ IsNotNone(kernel_size)
                         /\ \E w \in Conv2dInits : recurrent' = _init_recurrent_conv2d(w)
               ELSE recurrent' = _init_recurrent_one_to_one
            /\ IF init_hidden
               THEN /\ spk' = init_lleaky[1]
                    /\ mem' = init_lleaky[2]
                    /\ b' = init_lleaky[3]
               ELSE UNCHANGED <<spk, mem, b>>
    /\ last' = [NoCall EXCEPT !.op = "construct"]
    /\ UNCHANGED <<config, reset, held, steps, steady>>

\* ------------------------------------------------------ the step

\* _SpikeTorchConv: every state handed in becomes zeros_like(input_)
_SpikeTorchConv(x) == Tensor(ZeroT)

RECURSIVE SumTo(_, _)
\* f[1] + ... + f[n]
SumTo(f, n) == IF n = 0 THEN R0 ELSE RAdd(SumTo(f, n - 1), f[n])

\* self.recurrent(x): nn.Linear / nn.Conv2d (x W^T + bias), or
\* RecurrentOneToOne.forward (x * V)
RecurrentForward(x) ==
    IF recurrent.kind = "one_to_one"
    THEN TScale(V, x)
    ELSE [i \in Units |->
            RAdd(recurrent.bias[i],
                 SumTo([j \in Units |-> RMul(recurrent.weight[i][j], x[j])], NumUnits))]

\* _base_state_function without the (1 - beta) scaling of the input path
_base_state_function_unscaled(input_, s, m) ==
    TAdd(TScale(Clamp01(beta), m), TAdd(input_, RecurrentForward(s)))

\* LLeaky._base_state_function
_base_state_function(input_, s, m) ==
    TAdd(TScale(Clamp01(beta), m),
         TScale(RSub(R1, Clamp01(beta)), TAdd(input_, RecurrentForward(s))))

\* LLeaky._b_state_function
_b_state_function(s, t) ==
    TAdd(TScale(rho_b, t), TScale(RSub(R1, rho_b), s))

\* LLeaky._get_new_thresh
_get_new_thresh(t) == TShift(threshold, TScale(thresh_beta, t))

\* _build_state_function whose reset to zero clears the prior potential
\* instead of the integrated one
_build_state_function_clears_prior(input_, s, m, thresh, rst) ==
    IF reset_mechanism_val = 0
    THEN _base_state_function(input_, s, TSub(m, TMul(rst, thresh)))
    ELSE IF reset_mechanism_val = 1
    THEN _base_state_function(input_, s, TSub(m, TMul(rst, m)))
    ELSE _base_state_function(input_, s, m)

\* _build_state_function whose "no reset" branch still subtracts the threshold
_build_state_function_always_subtracts(input_, s, m, thresh, rst) ==
    IF reset_mechanism_val = 1
    THEN TSub(_base_state_function(input_, s, m),
              TMul(rst, _base_state_function(input_, s, m)))
    ELSE _base_state_function(input_, s, TSub(m, TMul(rst, thresh)))

\* LLeaky._build_state_function; rst is self.reset
_build_state_function(input_, s, m, thresh, rst) ==
    IF reset_mechanism_val = 0
    THEN _base_state_function(input_, s, TSub(m, TMul(rst, thresh)))
    ELSE IF reset_mechanism_val = 1
    THEN TSub(_base_state_function(input_, s, m),
              TMul(rst, _base_state_function(input_, s, m)))
    ELSE _base_state_function(input_, s, m)

\* LLeaky._base_state_function_hidden; s, m are self.spk, self.mem
_base_state_function_hidden(input_, s, m) ==
    TAdd(TAdd(TScale(Clamp01(beta), m), input_), RecurrentForward(s))

\* _build_state_function_hidden subtracting the threshold from the prior
\* potential, before the decay, as _build_state_function does
_build_state_function_hidden_subtracts_first(input_, s, m, rst) ==
    IF reset_mechanism_val = 0
    THEN _base_state_function_hidden(input_, s, TSub(m, TScale(threshold, rst)))
    ELSE IF reset_mechanism_val = 1
    THEN TSub(_base_state_function_hidden(input_, s, m),
              TMul(rst, _base_state_function_hidden(input_, s, m)))
    ELSE _base_state_function_hidden(input_, s, m)

\* LLeaky._build_state_function_hidden; rst is self.reset
_build_state_function_hidden(input_, s, m, rst) ==
    IF reset_mechanism_val = 0
    THEN TSub(_base_state_function_hidden(input_, s, m), TScale(threshold, rst))
    ELSE IF reset_mechanism_val = 1
    THEN TSub(_base_state_function_hidden(input_, s, m),
              TMul(rst, _base_state_function_hidden(input_, s, m)))
    ELSE _base_state_function_hidden(input_, s, m)

\* LLeaky._lleaky_forward_cases: TRUE iff it raises TypeError
_lleaky_forward_cases(s, m) == m.kind /= "False" \/ s.kind /= "False"

\* ALIF.alif_mem_reset: the reset gate, 1 where the potential meets the threshold
alif_mem_reset(m, t, thresh) ==
    [i \in Units |-> IF RGe(m[i], thresh[i]) THEN R1 ELSE R0]

\* ALIF.mem_reset: the gate against the layer's base threshold
mem_reset(m) == [i \in Units |-> IF RGe(m[i], threshold) THEN R1 ELSE R0]

\* ALIF.alif_fire: one spike bit per unit
alif_fire(m, thresh) == [i \in Units |-> IF RGe(m[i], thresh[i]) THEN R1 ELSE R0]

\* torch.argmax over the units: the lowest index holding the maximum
ArgMax(m) ==
    CHOOSE i \in Units :
        /\ \A j \in Units : RGe(m[i], m[j])
        /\ \A j \in Units : j < i => RGt(m[i], m[j])

\* ALIF.alif_fire_inhibition: only the unit of maximum potential may spike
alif_fire_inhibition(m, thresh) ==
    [i \in Units |-> IF i = ArgMax(m) /\ RGe(m[i], thresh[i]) THEN R1 ELSE R0]

\* the threshold tensor of a layer whose trace is not consulted
BaseThresh == [i \in Units |-> threshold]

OnesT == [i \in Units |-> R1]

\* Fire taking the else branch whatever self.inhibition is
Fire_without_inhibition(m, thresh) == alif_fire(m, thresh)

\* forward, lines 318-321 and 335-338: the spike of the updated potential
Fire(m, thresh) ==
    IF inhibition THEN alif_fire_inhibition(m, thresh) ELSE alif_fire(m, thresh)

\* forward, lines 294-302: what the first-pass conversion leaves in the
\* arguments <<spk, mem, b>> ...
ConvertedArgs(a_spk, a_mem, a_b) ==
    IF HasInitFlag(a_spk) \/ HasInitFlag(a_mem)
    THEN <<_SpikeTorchConv(a_spk), _SpikeTorchConv(a_mem), _SpikeTorchConv(a_b)>>
    ELSE <<a_spk, a_mem, a_b>>

\* ... and in the owned <<self.spk, self.mem, self.b>>
ConvertedOwned(a_spk, a_mem) ==
    IF ~(HasInitFlag(a_spk) \/ HasInitFlag(a_mem))
         /\ a_mem.kind = "False" /\ HasInitFlag(mem)
    THEN <<_SpikeTorchConv(spk), _SpikeTorchConv(mem), _SpikeTorchConv(b)>>
    ELSE <<spk, mem, b>>

\* ExplicitWrites storing the new spike and potential in self, as the
\* hidden-state branch does
ExplicitWrites_stores_state(o, rst, ns, nm) ==
    <<Tensor(ns), Tensor(nm), o[3], Tensor(rst)>>

\* forward, lines 308-323: the fields <<spk, mem, b, reset>> of self after the
\* explicit-state branch, which met the owned state o, computed the gate rst
\* and returns the spike ns and the potential nm
ExplicitWrites(o, rst, ns, nm) == <<o[1], o[2], o[3], Tensor(rst)>>

\* forward, lines 327-343: the owned trace after a hidden-state step that met
\* the owned state o
HiddenTrace(o) == o[3]

\* LLeaky.forward(input_, spk, mem, b)
forward(input_, a_spk, a_mem, a_b) ==
    LET l == ConvertedArgs(a_spk, a_mem, a_b)
        o == ConvertedOwned(a_spk, a_mem)
        pre == <<spk, mem, b, reset>>
        \* some state argument is not the default False
        given == a_spk /= PyFalse \/ a_mem /= PyFalse \/ a_b /= PyFalse
    IN  IF ~init_hidden
        THEN LET nb == _b_state_function(l[1].val, l[3].val)
                 thresh == _get_new_thresh(nb)
                 rst == alif_mem_reset(l[2].val, nb, thresh)
                 nm == _build_state_function(input_, l[1].val, l[2].val, thresh, rst)
                 ns == Fire(nm, thresh)
                 w == ExplicitWrites(o, rst, ns, nm)
             IN  /\ spk' = w[1]
                 /\ mem' = w[2]
                 /\ b' = w[3]
                 /\ reset' = w[4]
                 /\ held' = <<Tensor(ns), Tensor(nm), Tensor(nb)>>
                 /\ last' = [op |-> "explicit", err |-> FALSE, args |-> given,
                             input_ |-> input_,
                             spk |-> l[1], mem |-> l[2], b |-> l[3],
                             own |-> pre, thresh |-> thresh]
        ELSE IF _lleaky_forward_cases(l[1], l[2])
        THEN /\ spk' = o[1]
             /\ mem' = o[2]
             /\ b' = o[3]
             /\ last' = [op |-> "hidden", err |-> TRUE, args |-> given,
                         input_ |-> ZeroT,
                         spk |-> NoAttr, mem |-> NoAttr, b |-> NoAttr,
                         own |-> pre, thresh |-> BaseThresh]
             /\ UNCHANGED <<reset, held>>
        ELSE LET rst == mem_reset(o[2].val)
                 nm == _build_state_function_hidden(input_, o[1].val, o[2].val, rst)
                 ns == Fire(nm, BaseThresh)
             IN  /\ reset' = Tensor(rst)
                 /\ mem' = Tensor(nm)
                 /\ spk' = Tensor(ns)
                 /\ b' = HiddenTrace(o)
                 /\ last' = [op |-> "hidden", err |-> FALSE, args |-> given,
                             input_ |-> input_,
                             spk |-> o[1], mem |-> o[2], b |-> o[3],
                             own |-> pre, thresh |-> BaseThresh]
                 /\ UNCHANGED held

\* the input currents and the arguments the callers of the model try
InputVals == {R0, R1}
Inputs == [Units -> InputVals]
SpkArgs == {PyFalse, Sentinel, Tensor(OnesT)}
MemArgs == {PyFalse, Tensor(ZeroT)}
TraceArgs == {PyFalse, Tensor(OnesT)}

\* no run of constant input is in progress
Broken == 0 - 1

\* A caller of an explicit-state layer: spk, mem, b = lif(input_, spk, mem, b)
ForwardExplicit ==
    /\ pc = "ready"
    /\ ~init_hidden
    /\ steps < MaxSteps
    /\ \E input_ \in Inputs :
         /\ forward(input_, held[1], held[2], held[3])
         /\ steady' = IF steady /= Broken /\ input_ = OnesT
                      THEN steady + 1 ELSE Broken
    /\ steps' = steps + 1
    /\ UNCHANGED <<pc, config, recurrent>>

\* A caller of a hidden-state layer: lif(input_)
ForwardHidden ==
    /\ pc = "ready"
    /\ init_hidden
    /\ steps < MaxHiddenSteps
    /\ \E input_ \in Inputs : forward(input_, PyFalse, PyFalse, PyFalse)
    /\ steps' = steps + 1
    /\ UNCHANGED <<pc, config, recurrent, steady>>

\* A caller of a hidden-state layer that passes state all the same:
\* lif(input_, spk, mem, b) with some argument other than the default
ForwardHiddenArgs ==
    /\ pc = "ready"
    /\ init_hidden
    /\ steps < MaxHiddenSteps
    /\ \E input_ \in Inputs, a_spk \in SpkArgs, a_mem \in MemArgs, a_b \in TraceArgs :
         /\ <<a_spk, a_mem, a_b>> /= <<PyFalse, PyFalse, PyFalse>>
         /\ forward(input_, a_spk, a_mem, a_b)
    /\ steps' = steps + 1
    /\ UNCHANGED <<pc, config, recurrent, steady>>

\* The caller of an explicit-state layer starts over: spk, mem, b = lif.init_lleaky()
CallerInit ==
    /\ pc = "ready"
    /\ ~init_hidden
    /\ held' = init_lleaky
    /\ steady' = 0
    /\ last' = [NoCall EXCEPT !.op = "init"]
    /\ UNCHANGED <<pc, config, recurrent, spk, mem, b, reset, steps>>

\* reset_hidden that reinitialises the spike only
reset_hidden_keeps_mem ==
    /\ pc = "ready"
    /\ init_hidden
    /\ spk' = init_rleaky[1]
    /\ last' = [NoCall EXCEPT !.op = "reset", !.own = <<spk, mem, b, reset>>]
    /\ UNCHANGED <<pc, config, recurrent, mem, b, reset, held, steps, steady>>

\* LLeaky.reset_hidden, for the one instance of the model
reset_hidden ==
    /\ pc = "ready"
    /\ init_hidden
    /\ spk' = init_rleaky[1]
    /\ mem' = init_rleaky[2]
    /\ last' = [NoCall EXCEPT !.op = "reset", !.own = <<spk, mem, b, reset>>]
    /\ UNCHANGED <<pc, config, recurrent, b, reset, held, steps, steady>>

\* ------------------------------------------------ the specifications
BetaVals == {RHalf, Rat(3, 2)}
ThresholdVals == {RHalf}
ThreshBetaVals == {R0, R1}
RhoVals == {RHalf}
VVals == {R0, R1}

Fresh ==
    /\ pc = "new"
    /\ recurrent = NoRecurrent
    /\ spk = NoAttr /\ mem = NoAttr /\ b = NoAttr /\ reset = NoAttr
    /\ held = init_lleaky
    /\ last = NoCall
    /\ steps = 0
    /\ steady = 0

\* The layers of the model: the constructor arguments drawn from the given
\* sets. thresh_beta and V are drawn only where the layer reads them.
Layers(fields, hidden, inhib, resets, betas) ==
    /\ all_to_all \in BOOLEAN
    /\ linear_features \in {None, Some(NumUnits)} \cup fields
    /\ conv2d_channels \in {None, Some(1)} \cup fields
    /\ kernel_size \in {None, Some(3)} \cup fields
    /\ init_hidden \in hidden
    /\ inhibition \in inhib
    /\ reset_mechanism_val \in resets
    /\ beta \in betas
    /\ threshold \in ThresholdVals
    /\ thresh_beta \in (IF init_hidden THEN {R1} ELSE ThreshBetaVals)
    /\ rho_b \in RhoVals
    /\ V \in (IF all_to_all THEN {R1} ELSE VVals)
    /\ Fresh

Init == Layers({}, BOOLEAN, BOOLEAN, 0..2, BetaVals)

Next ==
    \/ Construct
    \/ ForwardExplicit
    \/ ForwardHidden
    \/ ForwardHiddenArgs
    \/ CallerInit
    \/ reset_hidden

Spec == Init /\ [][Next]_vars

\* the calls made on a hidden-state layer, and on an explicit-state one
NextHidden == Construct \/ ForwardHidden \/ ForwardHiddenArgs \/ reset_hidden
NextExplicit == Construct \/ ForwardExplicit \/ CallerInit

\* Construction over every combination of the four connectivity fields, each
\* absent (None), zero or set.
InitFields == Layers({Some(0)}, {TRUE}, {FALSE}, {0}, {RHalf})
SpecInit == InitFields /\ [][NextHidden]_vars

\* ------------------------------------------------------------ claims

\* A field counts as given when Python's bool() of it is true.
LinearGiven == PyBool(linear_features)
ChannelsGiven == PyBool(conv2d_channels)
KernelGiven == PyBool(kernel_size)

\* C1: construction fails with a TypeError exactly when all_to_all is set with
\* no linear size and neither conv field, or with no linear size and exactly
\* one conv field, or with a linear size and some conv field, or when
\* all_to_all is unset and any of the three fields is given; in every other
\* combination it succeeds and builds the projection the fields ask for.
C1_ConstructionFailsExactly ==
    pc /= "new" =>
        /\ (pc = "TypeError") <=>
              \/ all_to_all /\ ~LinearGiven /\ ~ChannelsGiven /\ ~KernelGiven
              \/ all_to_all /\ ~LinearGiven /\ (ChannelsGiven /= KernelGiven)
              \/ all_to_all /\ LinearGiven /\ (ChannelsGiven \/ KernelGiven)
              \/ ~all_to_all /\ (LinearGiven \/ ChannelsGiven \/ KernelGiven)
        /\ (pc /= "TypeError") <=>
              /\ pc = "ready"
              /\ recurrent.kind =
                    IF ~all_to_all THEN "one_to_one"
                    ELSE IF LinearGiven THEN "linear" ELSE "conv2d"
        /\ pc = "TypeError" => recurrent = NoRecurrent

\* C1 witness: a layer with conv2d_channels but no kernel_size was refused
C1_Witness ==
    /\ pc = "TypeError"
    /\ all_to_all /\ ~LinearGiven /\ ChannelsGiven /\ ~KernelGiven

\* the owned state and the gate, as the fields of self hold them
Owned == <<spk, mem, b, reset>>

\* C2: a step on a hidden-state layer that is given any state argument other
\* than the default ends in the usage error, and the owned state after the
\* failed call is the owned state before it.
C2_StateArgumentsRejectedUnchanged ==
    (last.op = "hidden" /\ last.args) => (last.err /\ Owned = last.own)

\* the last call was a forward call that ran to its end
Stepped == last.op \in {"explicit", "hidden"} /\ ~last.err

\* the potential and the spike that call produced: returned to the caller of
\* an explicit-state layer, stored in self by a hidden-state one
NewMem == IF last.op = "explicit" THEN held[2].val ELSE mem.val
NewSpk == IF last.op = "explicit" THEN held[1].val ELSE spk.val

\* the base integration of the convention the call ran under, over the state
\* and the input the call met
BaseOfCall ==
    IF last.op = "explicit"
    THEN _base_state_function(last.input_, last.spk.val, last.mem.val)
    ELSE _base_state_function_hidden(last.input_, last.spk.val, last.mem.val)

\* Layers that reset to zero.
InitZero == Layers({}, BOOLEAN, {FALSE}, {1}, BetaVals)
SpecZero == InitZero /\ [][Next]_vars

\* C3: under the reset-to-zero policy, a unit whose reset gate is 1 has
\* potential exactly 0 after the step, whatever the input, the previous spike,
\* the previous potential and the recurrent weights are.
C3_ZeroOutClearsPotential ==
    (Stepped /\ reset_mechanism_val = 1) =>
        \A i \in Units : reset.val[i] = R1 => NewMem[i] = R0

\* C3 witness: a reset-to-zero step whose gate is 1 on a unit that the base
\* integration alone would have left with a non-zero potential
C3_Witness ==
    /\ Stepped /\ reset_mechanism_val = 1
    /\ \E i \in Units : reset.val[i] = R1 /\ BaseOfCall[i] /= R0 /\ NewMem[i] = R0

\* Layers without reset.
InitNoReset == Layers({}, BOOLEAN, {FALSE}, {2}, BetaVals)
SpecNoReset == InitNoReset /\ [][Next]_vars

\* thresholds and reset gates other than the ones the call met
AltThresh == {[i \in Units |-> c] : c \in {RHalf, Rat(3, 1)}}
AltGates == [Units -> {R0, R1}]

\* C4: without reset, the potential a step produces is determined by the
\* input, the previous spike and the previous potential: the same step under
\* any other threshold (any other adaptation trace) and any other reset gate
\* produces the same potential.
C4_NoResetPotentialIgnoresThreshold ==
    (Stepped /\ reset_mechanism_val = 2) =>
        \A th \in AltThresh, rst \in AltGates :
            NewMem = IF last.op = "explicit"
                     THEN _build_state_function(last.input_, last.spk.val,
                                                last.mem.val, th, rst)
                     ELSE _build_state_function_hidden(last.input_, last.spk.val,
                                                       last.mem.val, rst)

\* C4 witness: a step without reset on a layer with a non-zero trace, whose
\* gate is 1 on a unit that keeps its integrated, non-zero potential
C4_Witness ==
    /\ Stepped /\ reset_mechanism_val = 2 /\ last.op = "explicit"
    /\ \E i \in Units :
         /\ reset.val[i] = R1
         /\ held[3].val[i] /= R0
         /\ NewMem[i] = BaseOfCall[i]
         /\ NewMem[i] /= R0

\* the adaptation trace the last call left: returned to the caller of an
\* explicit-state layer, held in self.b by a hidden-state one
NewTrace == IF last.op = "explicit" THEN held[3].val ELSE b.val

\* C5: every step, in either calling convention, takes the trace from b to
\* rho_b * b + (1 - rho_b) * spike_prev.
C5_TraceUpdatedEveryStep ==
    Stepped =>
        \A i \in Units :
            NewTrace[i] = RAdd(RMul(rho_b, last.b.val[i]),
                               RMul(RSub(R1, rho_b), last.spk.val[i]))

\* Layers with lateral inhibition.
InitInhibition == Layers({}, BOOLEAN, {TRUE}, {0}, {RHalf})
SpecInhibition == InitInhibition /\ [][Next]_vars

\* the units holding the maximum of the updated potential, those meeting the
\* threshold of the call, and those that spiked
MaxUnits == {i \in Units : \A j \in Units : RGe(NewMem[i], NewMem[j])}
MeetingUnits == {i \in Units : RGe(NewMem[i], last.thresh[i])}
SpikingUnits == {i \in Units : NewSpk[i] = R1}

\* C6: with inhibition, after every step: if the maximum potential is unique
\* and meets its threshold, exactly the unit holding it spikes; if the maximum
\* potential does not meet its threshold, no unit spikes.
C6_InhibitionWinnerTakesAll ==
    (Stepped /\ inhibition) =>
        /\ (Cardinality(MaxUnits) = 1 /\ MaxUnits \subseteq MeetingUnits)
              => SpikingUnits = MaxUnits
        /\ (MaxUnits \cap MeetingUnits = {}) => SpikingUnits = {}
        /\ \A i \in Units : NewSpk[i] \in {R0, R1}

\* C6 witness: an inhibited step in which two units meet their thresholds and
\* only the one with the larger potential spikes
C6_Witness ==
    /\ Stepped /\ inhibition
    /\ Cardinality(MaxUnits) = 1
    /\ Cardinality(MeetingUnits) >= 2
    /\ SpikingUnits = MaxUnits

\* Layers that reset by subtraction.
InitSubtract == Layers({}, BOOLEAN, {FALSE}, {0}, BetaVals)
SpecSubtract == InitSubtract /\ [][Next]_vars

\* the layer of the worked scenario: explicit state, beta = 0.5, base
\* threshold 0.5, threshold coupling 0, reset by subtraction, one-to-one
\* recurrent weight 0, no inhibition
Scenario ==
    /\ ~init_hidden /\ ~all_to_all /\ ~inhibition
    /\ V = R0 /\ beta = RHalf /\ threshold = RHalf /\ thresh_beta = R0
    /\ reset_mechanism_val = 0

InitHidden == Layers({}, {TRUE}, {FALSE}, 0..2, {RHalf})
SpecHidden == InitHidden /\ [][NextHidden]_vars
InitExplicit == Layers({}, {FALSE}, {FALSE}, 0..2, {RHalf})
SpecExplicit == InitExplicit /\ [][NextExplicit]_vars

\* what a state slot holds once the next forward call has converted it
Materialised(x) == IF HasInitFlag(x) THEN _SpikeTorchConv(x) ELSE x

\* C8: after any sequence of hidden-state steps, reset_hidden leaves spike,
\* potential and trace such that the next use finds all three zero: the triple
\* a first initialisation gives.
C8_ResetRestoresInitialState ==
    last.op = "reset" =>
        /\ <<Materialised(spk), Materialised(mem), Materialised(b)>>
              = <<Materialised(init_lleaky[1]), Materialised(init_lleaky[2]),
                  Materialised(init_lleaky[3])>>
        /\ \A x \in {spk, mem, b} : Materialised(x) = Tensor(ZeroT)

\* C8 witness: a reset of a layer whose spike and potential were not zero
C8_Witness ==
    /\ last.op = "reset"
    /\ last.own[1].kind = "tensor" /\ last.own[1].val /= ZeroT
    /\ last.own[2].kind = "tensor" /\ last.own[2].val /= ZeroT
    /\ HasInitFlag(spk) /\ HasInitFlag(mem)

\* C9, as claimed: an explicit-state layer is, after any sequence of steps, as
\* construction left it: no field of self has been written.
C9_ExplicitStepWritesNothing ==
    (pc = "ready" /\ ~init_hidden) => Owned = <<NoAttr, NoAttr, NoAttr, NoAttr>>

\* C9, amended: an explicit-state step writes none of self.spk, self.mem,
\* self.b; the one field it writes is self.reset, the gate of that very step,
\* computed from the arguments of the call.
C9_ExplicitStepWritesOnlyGate ==
    (pc = "ready" /\ ~init_hidden) =>
        /\ <<spk, mem, b>> = <<NoAttr, NoAttr, NoAttr>>
        /\ last.op = "explicit" =>
              reset = Tensor(alif_mem_reset(last.mem.val, NewTrace, last.thresh))
        /\ last.op = "construct" => reset = NoAttr

\* C9 witness: an explicit-state layer after its last step, the caller holding
\* a non-zero potential and trace, self holding only the gate
C9_Witness ==
    /\ pc = "ready" /\ ~init_hidden /\ Stepped /\ steps = MaxSteps
    /\ NewMem /= ZeroT /\ NewTrace /= ZeroT
    /\ reset.kind = "tensor" /\ mem = NoAttr

\* beta as the recurrence uses it
BetaEff == Clamp01(beta)

\* C10, as claimed: under reset by subtraction, in both conventions, the new
\* potential is the convention's base integration of the prior potential less
\* reset * threshold.
C10_SubtractBeforeIntegration ==
    (Stepped /\ reset_mechanism_val = 0) =>
        NewMem =
            LET lowered == TSub(last.mem.val, TMul(reset.val, last.thresh))
            IN  IF last.op = "explicit"
                THEN _base_state_function(last.input_, last.spk.val, lowered)
                ELSE _base_state_function_hidden(last.input_, last.spk.val, lowered)

\* C10, amended: an explicit-state step removes beta_eff * reset * threshold
\* (the adaptive threshold of the step) from the base integration of the prior
\* state; a hidden-state step removes reset * threshold (the base threshold),
\* after the integration and undecayed.
C10_SubtractPerConvention ==
    (Stepped /\ reset_mechanism_val = 0) =>
        \A i \in Units :
            NewMem[i] =
                IF last.op = "explicit"
                THEN RSub(BaseOfCall[i],
                          RMul(BetaEff, RMul(reset.val[i], last.thresh[i])))
                ELSE RSub(BaseOfCall[i], RMul(reset.val[i], threshold))

\* C10 witness: a hidden-state step with beta_eff < 1 whose gate is 1 on some
\* unit
C10_Witness ==
    /\ Stepped /\ reset_mechanism_val = 0 /\ last.op = "hidden"
    /\ RGt(R1, BetaEff)
    /\ \E i \in Units : reset.val[i] = R1

\* the trace the recurrence gives the step from the state the call met,
\* rho_b * b + (1 - rho_b) * spk, and the threshold derived from that trace
SteppedTrace ==
    [i \in Units |-> RAdd(RMul(rho_b, last.b.val[i]),
                          RMul(RSub(R1, rho_b), last.spk.val[i]))]
SteppedThresh ==
    [i \in Units |-> RAdd(threshold, RMul(thresh_beta, SteppedTrace[i]))]

\* the reset gate of the prior potential against that threshold
SteppedGate ==
    [i \in Units |-> IF RGe(last.mem.val[i], SteppedThresh[i]) THEN R1 ELSE R0]

\* C11: within every step, in both calling conventions, the trace is updated
\* first and the threshold derived from it; the reset gate is then computed
\* from the prior potential and that fresh threshold; the potential is then
\* updated using that gate; the spike is then emitted by comparing the updated
\* potential against that same adaptive threshold.
C11_StepOrderBothConventions ==
    Stepped =>
        /\ NewTrace = SteppedTrace
        /\ reset.val = SteppedGate
        /\ NewMem =
              IF last.op = "explicit"
              THEN _build_state_function(last.input_, last.spk.val, last.mem.val,
                                         SteppedThresh, SteppedGate)
              ELSE _build_state_function_hidden(last.input_, last.spk.val,
                                                last.mem.val, SteppedGate)
        /\ \A i \in Units :
              /\ NewSpk[i] = R1 => RGe(NewMem[i], SteppedThresh[i])
              /\ (~inhibition /\ RGe(NewMem[i], SteppedThresh[i])) => NewSpk[i] = R1

============================================================================
